---- MODULE Spec2Model ----
(***************************************************************************)
(* Model of porepy's UpwindCoupling (numerics/fv/transport/                *)
(* upwind_coupling.py) and PrimalVEM (numerics/vem/primal.py).             *)
(*                                                                         *)
(* Both classes are pure builders: a call takes grids and parameters and   *)
(* returns matrices (or raises).  A state holds the arguments of one call  *)
(* (inp), the position of the call (pc) and what it returned or raised     *)
(* (out).  numpy arrays are 0-based; they are modelled as sequences and    *)
(* read through At, which shifts the index by one.  Floating point numbers *)
(* are modelled by integers (fluxes) and by exact rationals <<n, d>>.      *)
(***************************************************************************)
EXTENDS Integers, Sequences, FiniteSets, TLC

VARIABLES pc, inp, out

vars == <<pc, inp, out>>

(***************************************************************************)
(* Bounds of the model.                                                    *)
(***************************************************************************)
\* the largest number of faces of the higher-dimensional grid of a coupling
MaxFaces == 2

\* the longest side of a cell
MaxSide == 2

\* the largest number of cells of a one-dimensional grid
MaxCells == 2

None == "None"

(***************************************************************************)
(* numpy / scipy.sparse primitives used by upwind_coupling.py              *)
(***************************************************************************)
\* an array with its elements computed: TLC evaluates f once, here
Array(f) == f \o <<>>

At(a, i) == a[i + 1]

Range0(n) == 0 .. (n - 1)

Zeros(n) == Array([k \in 1 .. n |-> 0])

\* a[idx] with an integer index array
Take(a, idx) == Array([k \in 1 .. Len(idx) |-> At(a, idx[k])])

\* a[mask] with a boolean mask of the same length
RECURSIVE MaskSel(_, _)
MaskSel(a, mask) ==
  IF Len(a) = 0 THEN <<>>
  ELSE (IF Head(mask) THEN <<Head(a)>> ELSE <<>>) \o MaskSel(Tail(a), Tail(mask))

\* elementwise product of two arrays
Times(a, b) == Array([k \in 1 .. Len(a) |-> a[k] * b[k]])

Max2(a, b) == IF a >= b THEN a ELSE b

Min2(a, b) == IF a <= b THEN a ELSE b

Sign(x) == IF x > 0 THEN 1 ELSE IF x < 0 THEN -1 ELSE 0

\* ndarray.clip(min=lo) and ndarray.clip(max=hi), elementwise
ClipMin(a, lo) == Array([k \in 1 .. Len(a) |-> Max2(a[k], lo)])

ClipMax(a, hi) == Array([k \in 1 .. Len(a) |-> Min2(a[k], hi)])

SignArr(a) == Array([k \in 1 .. Len(a) |-> Sign(a[k])])

NegArr(a) == Array([k \in 1 .. Len(a) |-> 0 - a[k]])

\* Order of the entries of a sparse matrix as scipy.sparse.find returns them:
\* by column, then by row.  An entry is <<row, col, value>>.
FindBefore(e, f) == e[2] < f[2] \/ (e[2] = f[2] /\ e[1] <= f[1])

RECURSIVE SortEntries(_)
SortEntries(S) ==
  IF S = {} THEN <<>>
  ELSE LET m == CHOOSE e \in S : \A f \in S : FindBefore(e, f)
       IN  <<m>> \o SortEntries(S \ {m})

\* sps.find(M): the three arrays (rows, cols, values)
SpFind(M) ==
  LET s == SortEntries(M)
  IN  [row |-> Array([k \in 1 .. Len(s) |-> s[k][1]]),
       col |-> Array([k \in 1 .. Len(s) |-> s[k][2]]),
       val |-> Array([k \in 1 .. Len(s) |-> s[k][3]])]

RECURSIVE SortInts(_)
SortInts(S) ==
  IF S = {} THEN <<>>
  ELSE LET m == CHOOSE x \in S : \A y \in S : x <= y
       IN  <<m>> \o SortInts(S \ {m})

\* np.unique(a, return_index=True)[1]: for each distinct value of a, in
\* increasing order, the (0-based) index of its first occurrence
UniqueIndex(a) ==
  LET vals == SortInts({a[k] : k \in 1 .. Len(a)})
  IN  Array([k \in 1 .. Len(vals) |->
         (CHOOSE i \in 1 .. Len(a) :
            a[i] = vals[k] /\ \A j \in 1 .. (i - 1) : a[j] # vals[k]) - 1])

\* M.tocsr()[rows, :].nonzero()[1]: the columns of the non-zero entries of
\* the selected rows, row after row
RECURSIVE RowsNonzeroCols(_, _)
RowsNonzeroCols(M, rows) ==
  IF Len(rows) = 0 THEN <<>>
  ELSE SortInts({e[2] : e \in {f \in M : f[1] = Head(rows)}})
         \o RowsNonzeroCols(M, Tail(rows))

\* np.add.at(a, idx, vals): a[idx[k]] += vals[k] for every k, unbuffered.
\* An index outside a raises IndexError.
RECURSIVE AddAtRec(_, _, _)
AddAtRec(a, idx, vals) ==
  IF Len(idx) = 0 THEN a
  ELSE AddAtRec([a EXCEPT ![Head(idx) + 1] = @ + Head(vals)], Tail(idx), Tail(vals))

AddAt(a, idx, vals) ==
  IF \E k \in 1 .. Len(idx) : idx[k] < 0 \/ idx[k] >= Len(a)
  THEN [ok |-> FALSE, err |-> "IndexError"]
  ELSE [ok |-> TRUE, v |-> AddAtRec(a, idx, vals)]

RECURSIVE SumSeq(_)
SumSeq(s) == IF Len(s) = 0 THEN 0 ELSE Head(s) + SumSeq(Tail(s))

\* the entries of data whose coordinate is (r, c), in the order of data
CooAt(data, rows, cols, r, c) ==
  MaskSel(data, Array([k \in 1 .. Len(data) |-> rows[k] = r /\ cols[k] = c]))

\* The mutant of CooMatrix that keeps the last of several entries of one
\* coordinate instead of their sum.
CooMatrixOverwrite(data, rows, cols, nr, nc) ==
  [ok |-> TRUE,
   m |-> [rc \in Range0(nr) \X Range0(nc) |->
            LET s == CooAt(data, rows, cols, rc[1], rc[2])
            IN  IF Len(s) = 0 THEN 0 ELSE s[Len(s)]]]

\* sps.coo_matrix((data, (rows, cols)), shape=(nr, nc)), read as a dense
\* matrix: entries of one coordinate are summed.
CooMatrix(data, rows, cols, nr, nc) ==
  IF Len(rows) # Len(data) \/ Len(cols) # Len(data)
     \/ \E k \in 1 .. Len(data) : rows[k] >= nr \/ cols[k] >= nc
  THEN [ok |-> FALSE, err |-> "ValueError"]
  ELSE [ok |-> TRUE,
        m |-> [rc \in Range0(nr) \X Range0(nc) |->
                 SumSeq(CooAt(data, rows, cols, rc[1], rc[2]))]]

\* sps.dia_matrix((diag, 0), shape=(n, n)), read as a dense matrix
DiaMatrix(diag, n) ==
  [rc \in Range0(n) \X Range0(n) |-> IF rc[1] = rc[2] THEN At(diag, rc[1]) ELSE 0]

(***************************************************************************)
(* UpwindCoupling.matrix_rhs                                               *)
(*                                                                         *)
(* A grid g is [dim, num_cells, num_faces, cell_faces, face_areas] with    *)
(* cell_faces the set of entries <<face, cell, sign>> of the sparse        *)
(* incidence matrix.  data_edge is [beta_n, face_cells].                   *)
(***************************************************************************)
\* lines 49-50 / 53-54 / 85-86: one sign per face, by first occurrence
FaceSigns(g) ==
  LET f == SpFind(g.cell_faces)
  IN  Take(f.val, UniqueIndex(f.row))

\* line 67 / 70 / 97: np.sign(b.clip(min=0)) * b
OutflowPart(b) == Times(SignArr(ClipMin(b, 0)), b)

\* The mutant of InflowPartAbs that clips on the other side, as the
\* equal-dimension branch does.
InflowPartAbsClipMin(b) == Times(SignArr(ClipMin(b, 0)), b)

\* line 94: np.sign(b.clip(max=0)) * b
InflowPartAbs(b) == Times(SignArr(ClipMax(b, 0)), b)

Raised(e) == [kind |-> "raised", err |-> e]

\* lines 46-78 and 106-109: the branch g_h.dim == g_l.dim
MatrixRhsEqual(g_h, g_l, data_edge) ==
  LET beta_n == data_edge.beta_n
      fc == SpFind(data_edge.face_cells)
      faces_h == fc.row
      faces_l == fc.col
      sgn_h == FaceSigns(g_h)
      beta_n_h == Times(Take(sgn_h, faces_h), Take(beta_n, faces_h))
      sgn_l == FaceSigns(g_l)
      beta_n_l == Times(Take(sgn_l, faces_l), Take(beta_n, faces_h))
      cells_h == RowsNonzeroCols(g_h.cell_faces, faces_h)
      cells_l == RowsNonzeroCols(g_l.cell_faces, faces_l)
      \* line 65-67
      d11a == AddAt(Zeros(g_l.num_cells), cells_l, OutflowPart(beta_n_l))
      \* line 68: diag_cc00 is allocated and never written
      diag_cc00 == Zeros(g_h.num_cells)
      \* line 69-70: the g_h accumulation goes to diag_cc11
      d11b == AddAt(d11a.v, cells_h, OutflowPart(beta_n_h))
      cc10 == CooMatrix(ClipMax(beta_n_l, 0), cells_l, cells_h,
                        g_l.num_cells, g_h.num_cells)
      cc01 == CooMatrix(ClipMax(beta_n_h, 0), cells_h, cells_l,
                        g_h.num_cells, g_l.num_cells)
  IN  IF ~d11a.ok THEN Raised(d11a.err)
      ELSE IF ~d11b.ok THEN Raised(d11b.err)
      ELSE IF ~cc10.ok THEN Raised(cc10.err)
      ELSE IF ~cc01.ok THEN Raised(cc01.err)
      ELSE [kind |-> "cc",
            cc00 |-> DiaMatrix(diag_cc00, g_h.num_cells),
            cc01 |-> cc01.m,
            cc10 |-> cc10.m,
            cc11 |-> DiaMatrix(d11b.v, g_l.num_cells)]

\* lines 80-109: the branch g_h.dim != g_l.dim
MatrixRhsAdjacent(g_h, g_l, data_edge) ==
  LET fc == SpFind(data_edge.face_cells)
      cells_l == fc.row
      faces_h == fc.col
      sgn == FaceSigns(g_h)
      beta_n == Times(Take(sgn, faces_h), Take(data_edge.beta_n, faces_h))
      cells_h == RowsNonzeroCols(g_h.cell_faces, faces_h)
      d11 == AddAt(Zeros(g_l.num_cells), cells_l, InflowPartAbs(beta_n))
      d00 == AddAt(Zeros(g_h.num_cells), cells_h, OutflowPart(beta_n))
      cc10 == CooMatrix(NegArr(ClipMin(beta_n, 0)), cells_l, cells_h,
                        g_l.num_cells, g_h.num_cells)
      cc01 == CooMatrix(ClipMax(beta_n, 0), cells_h, cells_l,
                        g_h.num_cells, g_l.num_cells)
  IN  IF ~d11.ok THEN Raised(d11.err)
      ELSE IF ~d00.ok THEN Raised(d00.err)
      ELSE IF ~cc10.ok THEN Raised(cc10.err)
      ELSE IF ~cc01.ok THEN Raised(cc01.err)
      ELSE [kind |-> "cc",
            cc00 |-> DiaMatrix(d00.v, g_h.num_cells),
            cc01 |-> cc01.m,
            cc10 |-> cc10.m,
            cc11 |-> DiaMatrix(d11.v, g_l.num_cells)]

\* UpwindCoupling.matrix_rhs(g_h, g_l, data_h, data_l, data_edge)
UpwindMatrixRhs(g_h, g_l, data_edge) ==
  IF g_h.dim = g_l.dim
  THEN MatrixRhsEqual(g_h, g_l, data_edge)
  ELSE MatrixRhsAdjacent(g_h, g_l, data_edge)

(***************************************************************************)
(* Exact rational arithmetic: <<n, d>> with d > 0 and gcd(n, d) = 1.       *)
(***************************************************************************)
Abs(x) == IF x < 0 THEN 0 - x ELSE x

RECURSIVE GCD(_, _)
GCD(a, b) == IF b = 0 THEN a ELSE GCD(b, a % b)

Rat(n, d) ==
  LET g == GCD(Abs(n), Abs(d))
      s == IF d < 0 THEN -1 ELSE 1
  IN  <<(s * n) \div g, (s * d) \div g>>

RInt(i) == <<i, 1>>

RAdd(x, y) == Rat(x[1] * y[2] + y[1] * x[2], x[2] * y[2])

RSub(x, y) == Rat(x[1] * y[2] - y[1] * x[2], x[2] * y[2])

RMul(x, y) == Rat(x[1] * y[1], x[2] * y[2])

\* x / y for y # 0
RDiv(x, y) == Rat(x[1] * y[2], x[2] * y[1])

RAbs(x) == <<Abs(x[1]), x[2]>>

RLeq(x, y) == x[1] * y[2] <= y[1] * x[2]

RZero == RInt(0)

\* np.amin of a non-empty array of rationals
RECURSIVE RAmin(_)
RAmin(a) ==
  IF Len(a) = 1 THEN a[1]
  ELSE LET m == RAmin(Tail(a)) IN IF RLeq(a[1], m) THEN a[1] ELSE m

(***************************************************************************)
(* UpwindCoupling.cfl                                                      *)
(***************************************************************************)
Inf == "inf"

\* a key missing from a parameter dictionary
Absent == <<>>

\* dict.get(key, np.ones(n))
GetOrOnes(d, key, n) == IF d[key] = Absent THEN [k \in 1 .. n |-> 1] ELSE d[key]

\* a[mask] with a boolean mask: numpy raises IndexError when the mask and
\* the array differ in length
BoolIndex(a, mask) ==
  IF Len(mask) # Len(a)
  THEN [ok |-> FALSE, err |-> "IndexError"]
  ELSE [ok |-> TRUE, v |-> MaskSel(a, mask)]

\* line 144: ~np.isclose(0, b, atol=0), that is |0 - b| > rtol * |b|, b # 0
NotZero(b) == Array([k \in 1 .. Len(b) |-> b[k] # 0])

\* lines 159-163 for one entry: |dist / beta| * phi
CflTerm(a_l, a_h, beta, area, phi) ==
  LET dist == RMul(<<1, 2>>, RDiv(RInt(a_l), RInt(a_h)))
      b == RDiv(RInt(beta), RInt(area * a_h))
  IN  RMul(RAbs(RDiv(dist, b)), RInt(phi))

\* lines 137-163
UpwindCfl(g_h, g_l, data_h, data_l, data_edge) ==
  LET beta_n == data_edge.beta_n
      fc == SpFind(data_edge.face_cells)
      not_zero == NotZero(Take(beta_n, fc.col))
      cells_l == MaskSel(fc.row, not_zero)
      faces_h == MaskSel(fc.col, not_zero)
      \* line 152: the columns of the rows already filtered, filtered again
      cells_h == BoolIndex(RowsNonzeroCols(g_h.cell_faces, faces_h), not_zero)
      apertures_h == Take(GetOrOnes(data_h, "a", g_h.num_cells), cells_h.v)
      apertures_l == Take(GetOrOnes(data_l, "a", g_l.num_cells), cells_l)
      phi_l == Take(GetOrOnes(data_l, "phi", g_l.num_cells), cells_l)
      areas == Take(g_h.face_areas, faces_h)
      b == Take(beta_n, faces_h)
  IN  IF \A k \in 1 .. Len(not_zero) : ~not_zero[k]
      THEN [kind |-> "value", deltaT |-> Inf]
      ELSE IF ~cells_h.ok THEN Raised(cells_h.err)
      ELSE [kind |-> "value",
            deltaT |-> RAmin([k \in 1 .. Len(faces_h) |->
                         CflTerm(apertures_l[k], apertures_h[k], b[k],
                                 areas[k], phi_l[k])])]

(***************************************************************************)
(* Arguments of the coupling calls.                                        *)
(***************************************************************************)
Signs == {-1, 1}

\* the values beta_n takes on a face
Fluxes == {-2, -1, 0, 1, 2}

\* the numbers of cells of a grid
CellCounts == {1, 2}

\* cell_faces of a grid whose face f lies in cell cf[f][1] with sign cf[f][2]
CellFacesOf(nf, cf) == {<<f, cf[f + 1][1], cf[f + 1][2]>> : f \in Range0(nf)}

UpwindGrid(dim, nc, nf, cf) ==
  [dim |-> dim, num_cells |-> nc, num_faces |-> nf,
   cell_faces |-> CellFacesOf(nf, cf),
   face_areas |-> [k \in 1 .. nf |-> 1]]

\* face_cells of the dimension-adjacent case: entries <<cell_l, face_h, 1>>;
\* m[f] is the g_l cell matched to face f of g_h, or -1
FaceCellsAdjacent(nf, m) ==
  {<<m[f + 1], f, 1>> : f \in {x \in Range0(nf) : m[x + 1] # -1}}

\* face_cells of the equal-dimension case: entries <<face_h, face_l, 1>>
FaceCellsEqual(nf, m) ==
  {<<f, m[f + 1], 1>> : f \in {x \in Range0(nf) : m[x + 1] # -1}}

\* The faces off the interface all lie in cell 0 with sign 1: what a call
\* computes does not read their cell or sign.
OffInterfaceFixed(nf, cf, m) ==
  \A f \in 1 .. nf : m[f] = -1 => cf[f] = <<0, 1>>

InitAdjacent ==
  /\ pc = "ready"
  /\ out = None
  /\ \E nh \in CellCounts, nl \in CellCounts, nf \in 1 .. MaxFaces :
       \E cf \in [1 .. nf -> Range0(nh) \X Signs],
          m \in [1 .. nf -> Range0(nl) \cup {-1}],
          b \in [1 .. nf -> Fluxes] :
         /\ OffInterfaceFixed(nf, cf, m)
         /\ inp = [g_h |-> UpwindGrid(2, nh, nf, cf),
                   g_l |-> UpwindGrid(1, nl, 0, <<>>),
                   data_edge |-> [beta_n |-> b,
                                  face_cells |-> FaceCellsAdjacent(nf, m)]]

InitEqual ==
  /\ pc = "ready"
  /\ out = None
  /\ \E nh \in CellCounts, nl \in CellCounts,
        nfh \in 1 .. MaxFaces, nfl \in 1 .. MaxFaces :
       \E cfh \in [1 .. nfh -> Range0(nh) \X Signs],
          cfl \in [1 .. nfl -> Range0(nl) \X Signs],
          m \in [1 .. nfh -> Range0(nfl) \cup {-1}],
          b \in [1 .. nfh -> Fluxes] :
         /\ OffInterfaceFixed(nfh, cfh, m)
         /\ \A f \in 1 .. nfl :
              (\A h \in 1 .. nfh : m[h] # f - 1) => cfl[f] = <<0, 1>>
         /\ inp = [g_h |-> UpwindGrid(1, nh, nfh, cfh),
                   g_l |-> UpwindGrid(1, nl, nfl, cfl),
                   data_edge |-> [beta_n |-> b,
                                  face_cells |-> FaceCellsEqual(nfh, m)]]

\* the optional per-cell arrays of a parameter dictionary
OptArrays(n, vals) == {Absent} \cup [1 .. n -> vals]

InitCfl ==
  /\ pc = "ready"
  /\ out = None
  /\ \E nh \in CellCounts, nl \in CellCounts, nf \in 1 .. MaxFaces :
       \E cf \in [1 .. nf -> Range0(nh) \X {1}],
          m \in [1 .. nf -> Range0(nl) \cup {-1}],
          b \in [1 .. nf -> {-2, 0, 1}],
          ar \in [1 .. nf -> {1, 3}],
          ah \in OptArrays(nh, {1, 2}),
          al \in OptArrays(nl, {1, 2}),
          phi \in OptArrays(nl, {1, 3}) :
         /\ OffInterfaceFixed(nf, cf, m)
         /\ inp = [g_h |-> [UpwindGrid(2, nh, nf, cf) EXCEPT !.face_areas = ar],
                   g_l |-> UpwindGrid(1, nl, 0, <<>>),
                   data_h |-> [a |-> ah],
                   data_l |-> [a |-> al, phi |-> phi],
                   data_edge |-> [beta_n |-> b,
                                  face_cells |-> FaceCellsAdjacent(nf, m)]]

\* a call of UpwindCoupling.matrix_rhs
CallUpwindMatrixRhs ==
  /\ pc = "ready"
  /\ pc' = "UpwindCoupling.matrix_rhs"
  /\ out' = UpwindMatrixRhs(inp.g_h, inp.g_l, inp.data_edge)
  /\ UNCHANGED inp

\* a call of UpwindCoupling.cfl
CallUpwindCfl ==
  /\ pc = "ready"
  /\ pc' = "UpwindCoupling.cfl"
  /\ out' = UpwindCfl(inp.g_h, inp.g_l, inp.data_h, inp.data_l, inp.data_edge)
  /\ UNCHANGED inp

SpecAdjacent == InitAdjacent /\ [][CallUpwindMatrixRhs]_vars

SpecEqual == InitEqual /\ [][CallUpwindMatrixRhs]_vars

SpecCfl == InitCfl /\ [][CallUpwindCfl]_vars

(***************************************************************************)
(* Dense linear algebra over the rationals, for primal.py.  A vector is a  *)
(* sequence of rationals, a matrix a sequence of rows.                     *)
(***************************************************************************)
NRows(A) == Len(A)

NCols(A) == IF Len(A) = 0 THEN 0 ELSE Len(A[1])

RECURSIVE RSumSeq(_)
RSumSeq(s) == IF Len(s) = 0 THEN RZero ELSE RAdd(Head(s), RSumSeq(Tail(s)))

ZeroMat(m, n) == Array([i \in 1 .. m |-> Array([j \in 1 .. n |-> RZero])])

\* np.eye(n)
Eye(n) ==
  Array([i \in 1 .. n |-> Array([j \in 1 .. n |-> IF i = j THEN RInt(1) ELSE RZero])])

Transpose(A) ==
  Array([j \in 1 .. NCols(A) |-> Array([i \in 1 .. NRows(A) |-> A[i][j]])])

\* np.dot(A, B)
Dot(A, B) ==
  Array([i \in 1 .. NRows(A) |-> Array([j \in 1 .. NCols(B) |->
     RSumSeq(Array([k \in 1 .. NCols(A) |-> RMul(A[i][k], B[k][j])]))])])

MatAdd(A, B) ==
  Array([i \in 1 .. NRows(A) |-> Array([j \in 1 .. NCols(A) |->
     RAdd(A[i][j], B[i][j])])])

MatSub(A, B) ==
  Array([i \in 1 .. NRows(A) |-> Array([j \in 1 .. NCols(A) |->
     RSub(A[i][j], B[i][j])])])

MatScale(A, x) ==
  Array([i \in 1 .. NRows(A) |-> Array([j \in 1 .. NCols(A) |-> RMul(A[i][j], x)])])

\* s without its k-th element
DropAt(s, k) == Array([i \in 1 .. (Len(s) - 1) |-> IF i < k THEN s[i] ELSE s[i + 1]])

\* A without row r and column c
Minor(A, r, c) == Array([i \in 1 .. (NRows(A) - 1) |-> DropAt(DropAt(A, r)[i], c)])

\* the determinant, by expansion along the first row
RECURSIVE Det(_)
Det(A) ==
  IF NRows(A) = 0 THEN RInt(1)
  ELSE RSumSeq(Array([j \in 1 .. NCols(A) |->
         IF A[1][j] = RZero THEN RZero
         ELSE RMul(RMul(RInt(IF j % 2 = 1 THEN 1 ELSE -1), A[1][j]),
                   Det(Minor(A, 1, j)))]))

\* G with column c replaced by the vector b
ReplaceCol(G, c, b) ==
  Array([i \in 1 .. NRows(G) |-> Array([j \in 1 .. NCols(G) |->
     IF j = c THEN b[i] ELSE G[i][j]])])

\* np.linalg.solve(G, F): the X with G X = F; LinAlgError for a singular G
LinalgSolve(G, F) ==
  LET d == Det(G)
  IN  IF d = RZero THEN [ok |-> FALSE, err |-> "LinAlgError"]
      ELSE [ok |-> TRUE,
            x |-> Array([i \in 1 .. NRows(G) |-> Array([j \in 1 .. NCols(F) |->
                     RDiv(Det(ReplaceCol(G, i, Transpose(F)[j])), d)])])]

\* the defaults of np.allclose: rtol = 1e-05, atol = 1e-08, as 1 / RTolInv
\* and 1 / ATolInv
RTolInv == 100000

ATolInv == 100000000

\* np.isclose(a, b): |a - b| <= atol + rtol * |b|.  With |a - b| = p / q
\* and |b| = r / s this is p * s * ATolInv <= q * (s + (ATolInv / RTolInv) * r).
IsClose(a, b) ==
  LET d == RAbs(RSub(a, b))
      bb == RAbs(b)
  IN  d[1] * bb[2] <= (d[2] * (bb[2] + (ATolInv \div RTolInv) * bb[1])) \div ATolInv

\* np.allclose(A, B)
AllClose(A, B) ==
  \A i \in 1 .. NRows(A) : \A j \in 1 .. NCols(A) : IsClose(A[i][j], B[i][j])

RECURSIVE Pow2(_)
Pow2(n) == IF n = 0 THEN 1 ELSE 2 * Pow2(n - 1)

(***************************************************************************)
(* PrimalVEM.stiffH1                                                       *)
(*                                                                         *)
(* coord and normals are dim x n matrices as in the source: coord[i][j]    *)
(* is coordinate i of node j.  node_faces is a matrix of booleans.         *)
(***************************************************************************)
\* lines 277-279: monomial m (0-based) at the point pt
Mono(m, pt, c_center, diam) ==
  IF m = 0 THEN RInt(1) ELSE RDiv(RSub(pt[m], c_center[m]), diam)

\* line 281: np.block([[np.zeros(dim)], [np.eye(num_mono - 1) / diam]])
Grad(dim, diam) ==
  Array([i \in 1 .. (dim + 1) |-> Array([j \in 1 .. dim |->
     IF i = j + 1 THEN RDiv(RInt(1), diam) ELSE RZero])])

\* line 284: D[j][m] is monomial m at node j
LocalD(c_center, diam, coord) ==
  LET dim == NRows(coord)
      ct == Transpose(coord)
  IN  Array([j \in 1 .. NCols(coord) |-> Array([m \in 1 .. (dim + 1) |->
         Mono(m - 1, ct[j], c_center, diam)])])

\* lines 287-288
LocalGtilde(dim, c_volume, diam) ==
  LET g1 == Tail(Grad(dim, diam))
      gg == MatScale(Dot(g1, Transpose(g1)), c_volume)
  IN  Array([i \in 1 .. (dim + 1) |-> Array([j \in 1 .. (dim + 1) |->
         IF i = 1 \/ j = 1 THEN RZero ELSE gg[i - 1][j - 1]])])

\* lines 289-290: G[0, :] = D.sum(axis=0) / num_nodes
LocalG(Gtilde, D) ==
  Array([i \in 1 .. NRows(Gtilde) |->
     IF i = 1
     THEN Array([m \in 1 .. NCols(D) |->
             RDiv(RSumSeq(Array([j \in 1 .. NRows(D) |-> D[j][m]])), RInt(NRows(D)))])
     ELSE Gtilde[i]])

\* lines 293-300
LocalF(dim, diam, normals, node_faces) ==
  LET num_nodes == NRows(node_faces)
      prod == MatScale(Dot(Tail(Grad(dim, diam)), normals), <<1, Pow2(dim - 1)>>)
  IN  Array([i \in 1 .. (dim + 1) |-> Array([j \in 1 .. num_nodes |->
         IF i = 1 THEN <<1, num_nodes>>
         ELSE RSumSeq(MaskSel(prod[i - 1], node_faces[j]))])])

RaisedAt(e, at, detail) == [kind |-> "raised", err |-> e, at |-> at, detail |-> detail]

\* The mutant of StiffSum that returns the consistency term alone.
StiffSumNoStabilization(Pi_s, Gtilde, I_Pi) == Dot(Transpose(Pi_s), Dot(Gtilde, Pi_s))

\* line 310
StiffSum(Pi_s, Gtilde, I_Pi) ==
  MatAdd(Dot(Transpose(Pi_s), Dot(Gtilde, Pi_s)), Dot(Transpose(I_Pi), I_Pi))

\* The mutant of StiffH1 that scales the consistency term by the
\* permeability K.
StiffH1UsingK(K, c_center, c_volume, normals, diam, coord, node_faces) ==
  LET dim == NRows(coord)
      num_nodes == NCols(coord)
      D == LocalD(c_center, diam, coord)
      Gtilde == LocalGtilde(dim, c_volume, diam)
      G == LocalG(Gtilde, D)
      F == LocalF(dim, diam, normals, node_faces)
      FD == Dot(F, D)
      Pi_s == LinalgSolve(G, F)
      I_Pi == MatSub(Eye(num_nodes), Dot(D, Pi_s.x))
  IN  IF ~AllClose(G, FD)
      THEN RaisedAt("AssertionError", "stiffH1", [G |-> G, FD |-> FD])
      ELSE IF ~Pi_s.ok THEN RaisedAt(Pi_s.err, "stiffH1", <<>>)
      ELSE [kind |-> "ok", A |-> StiffSum(Pi_s.x, MatScale(Gtilde, RInt(K)), I_Pi)]

\* lines 273-310.  The message of the failed assertion is
\* "G\n" + str(G) + "\nF*D\n" + str(np.dot(F, D)).
StiffH1(K, c_center, c_volume, normals, diam, coord, node_faces) ==
  LET dim == NRows(coord)
      num_nodes == NCols(coord)
      D == LocalD(c_center, diam, coord)
      Gtilde == LocalGtilde(dim, c_volume, diam)
      G == LocalG(Gtilde, D)
      F == LocalF(dim, diam, normals, node_faces)
      FD == Dot(F, D)
      Pi_s == LinalgSolve(G, F)
      I_Pi == MatSub(Eye(num_nodes), Dot(D, Pi_s.x))
  IN  IF ~AllClose(G, FD)
      THEN RaisedAt("AssertionError", "stiffH1", [G |-> G, FD |-> FD])
      ELSE IF ~Pi_s.ok THEN RaisedAt(Pi_s.err, "stiffH1", <<>>)
      ELSE [kind |-> "ok", A |-> StiffSum(Pi_s.x, Gtilde, I_Pi)]

(***************************************************************************)
(* Arguments of the kernel: intervals, rectangles and right triangles with *)
(* sides up to MaxSide, their faces numbered counter-clockwise, with the   *)
(* orientation sign sg[f] applied to the outward normal of face f.         *)
(***************************************************************************)
Sides == 1 .. MaxSide

\* the values of the permeability passed to the kernel
Perms == {1, 2}

RVec(v) == Array([i \in 1 .. Len(v) |-> RInt(v[i])])

RMat(A) == Array([i \in 1 .. Len(A) |-> RVec(A[i])])

\* sign[loc] * f_normals[:, faces_loc] for the outward normals nrm (dim x nf)
SignedNormals(nrm, sg) ==
  Array([i \in 1 .. Len(nrm) |-> Array([f \in 1 .. Len(sg) |-> RInt(sg[f] * nrm[i][f])])])

\* the interval [0, w]
IntervalCell(w, sg, vol, diam, K) ==
  [K |-> K,
   c_center |-> <<<<w, 2>>>>,
   c_volume |-> RInt(vol),
   normals |-> SignedNormals(<<<<-1, 1>>>>, sg),
   diam |-> RInt(diam),
   coord |-> RMat(<<<<0, w>>>>),
   node_faces |-> <<<<TRUE, FALSE>>, <<FALSE, TRUE>>>>]

\* the rectangle [0, w] x [0, h]: nodes (0,0), (w,0), (w,h), (0,h), faces
\* bottom, right, top, left
RectangleCell(w, h, sg, vol, diam, K) ==
  [K |-> K,
   c_center |-> <<Rat(w, 2), Rat(h, 2)>>,
   c_volume |-> RInt(vol),
   normals |-> SignedNormals(<<<<0, h, 0, 0 - h>>, <<0 - w, 0, w, 0>>>>, sg),
   diam |-> RInt(diam),
   coord |-> RMat(<<<<0, w, w, 0>>, <<0, 0, h, h>>>>),
   node_faces |-> <<<<TRUE, FALSE, FALSE, TRUE>>, <<TRUE, TRUE, FALSE, FALSE>>,
                    <<FALSE, TRUE, TRUE, FALSE>>, <<FALSE, FALSE, TRUE, TRUE>>>>]

\* the triangle (0,0), (w,0), (0,h) of area vol2 / 2: faces bottom,
\* hypotenuse, left
TriangleCell(w, h, sg, vol2, diam, K) ==
  [K |-> K,
   c_center |-> <<Rat(w, 3), Rat(h, 3)>>,
   c_volume |-> Rat(vol2, 2),
   normals |-> SignedNormals(<<<<0, h, 0 - h>>, <<0 - w, w, 0>>>>, sg),
   diam |-> RInt(diam),
   coord |-> RMat(<<<<0, w, 0>>, <<0, 0, h>>>>),
   node_faces |-> <<<<TRUE, FALSE, TRUE>>, <<TRUE, TRUE, FALSE>>,
                    <<FALSE, TRUE, TRUE>>>>]

InitStiff ==
  /\ pc = "ready"
  /\ out = None
  /\ \E w \in Sides, h \in Sides, diam \in Sides, K \in Perms,
        zero \in BOOLEAN, shape \in {"interval", "rectangle", "triangle"} :
       \/ /\ shape = "interval"
          /\ h = 1
          /\ \E sg \in [1 .. 2 -> Signs] :
               inp = IntervalCell(w, sg, IF zero THEN 0 ELSE w, diam, K)
       \/ /\ shape = "rectangle"
          /\ \E sg \in [1 .. 4 -> Signs] :
               inp = RectangleCell(w, h, sg, IF zero THEN 0 ELSE w * h, diam, K)
       \/ /\ shape = "triangle"
          /\ \E sg \in [1 .. 3 -> Signs] :
               inp = TriangleCell(w, h, sg, IF zero THEN 0 ELSE w * h, diam, K)

\* a call of PrimalVEM.stiffH1
CallStiffH1 ==
  /\ pc = "ready"
  /\ pc' = "PrimalVEM.stiffH1"
  /\ out' = StiffH1(inp.K, inp.c_center, inp.c_volume, inp.normals, inp.diam,
                    inp.coord, inp.node_faces)
  /\ UNCHANGED inp

SpecStiff == InitStiff /\ [][CallStiffH1]_vars

(***************************************************************************)
(* PrimalVEM.matrix, PrimalVEM.rhs and PrimalVEM.matrix_rhs                *)
(*                                                                         *)
(* A grid g is [dim, num_nodes, num_cells, num_faces, cell_faces,          *)
(* face_nodes, cell_nodes, cell_volumes, cell_diameters, c_centers,        *)
(* f_normals, node_coords]: the three incidence matrices are sets of       *)
(* entries <<row, col, value>>, c_centers, f_normals and node_coords are   *)
(* what cg.map_grid(g) returns.  data is [k, a, bc, bc_val, f]: bc is      *)
(* Missing (None) or [is_dir |-> flags], bc_val is Missing or              *)
(* [val |-> values]; flags and values have one entry per face of g.        *)
(***************************************************************************)
\* The element of a set of one element.  Only({e : x \in {v}}) is e after
\* the assignment x = v: v is evaluated once, when the assignment is made.
Only(S) == CHOOSE r \in S : TRUE

\* a parameter that was not given: get_bc or get_bc_val returns None
Missing == [missing |-> TRUE]

\* M.indptr of a sparse matrix in compressed column form with nc columns
Indptr(M, nc) == Array([c \in 1 .. (nc + 1) |-> Cardinality({e \in M : e[2] < c - 1})])

\* a[lo:hi]
Slice(a, lo, hi) == SubSeq(a, lo + 1, hi)

\* line 171: dict(zip(nodes_loc, np.arange(nodes_loc.size)))[n]
NodesMap(nodes_loc, n) == (CHOOSE k \in 1 .. Len(nodes_loc) : nodes_loc[k] = n) - 1

\* A[:, idx] of a dense matrix
TakeCols(A, idx) == Array([i \in 1 .. NRows(A) |-> Take(A[i], idx)])

\* lines 126-128 and 163-166: the faces of cell c and their signs
CellFacesLoc(g, c) ==
  LET cf == SpFind(g.cell_faces)
      ip == Indptr(g.cell_faces, g.num_cells)
  IN  [faces |-> Slice(cf.row, At(ip, c), At(ip, c + 1)),
       sign |-> Slice(cf.val, At(ip, c), At(ip, c + 1))]

\* lines 130-131 and 169-170: the nodes of cell c
NodesLoc(g, c) ==
  LET ip == Indptr(g.cell_nodes, g.num_cells)
  IN  Slice(SpFind(g.cell_nodes).row, At(ip, c), At(ip, c + 1))

\* lines 133 and 173-177: node_faces[n_loc][f_loc]
NodeFaces(g, nodes_loc, faces_loc) ==
  LET nodes_fn == SpFind(g.face_nodes).row
      ip == Indptr(g.face_nodes, g.num_faces)
  IN  Array([n \in 1 .. Len(nodes_loc) |-> Array([f \in 1 .. Len(faces_loc) |->
        \E k \in (At(ip, faces_loc[f]) + 1) .. At(ip, faces_loc[f] + 1) :
           NodesMap(nodes_loc, nodes_fn[k]) = n - 1])])

\* lines 162-182: the arguments of the kernel of cell c
KernelArgs(g, data, c) ==
  LET fl == CellFacesLoc(g, c)
      nrm == TakeCols(g.f_normals, fl.faces)
      nodes_loc == NodesLoc(g, c)
  IN  [K |-> At(data.a, c) * At(data.k, c),
       c_center |-> Transpose(TakeCols(g.c_centers, <<c>>))[1],
       c_volume |-> At(g.cell_volumes, c),
       normals |-> Array([i \in 1 .. NRows(nrm) |-> Array([f \in 1 .. Len(fl.sign) |->
                     RMul(RInt(fl.sign[f]), nrm[i][f])])]),
       diam |-> At(g.cell_diameters, c),
       coord |-> TakeCols(g.node_coords, nodes_loc),
       node_faces |-> NodeFaces(g, nodes_loc, fl.faces)]

\* lines 179-182: the local matrix of cell c
LocalMatrix(g, data, c) ==
  Only({StiffH1(x.K, x.c_center, x.c_volume, x.normals, x.diam, x.coord, x.node_faces) :
          x \in {KernelArgs(g, data, c)}})

\* lines 185-190: the triplets of one cell, I = cols.T.ravel(),
\* J = cols.ravel(), dataIJ = A.ravel()
CellTriplets(nodes_loc, A) ==
  LET n == Len(nodes_loc)
  IN  [I |-> Array([k \in 1 .. (n * n) |-> nodes_loc[((k - 1) \div n) + 1]]),
       J |-> Array([k \in 1 .. (n * n) |-> nodes_loc[((k - 1) % n) + 1]]),
       v |-> Array([k \in 1 .. (n * n) |-> A[((k - 1) \div n) + 1][((k - 1) % n) + 1]])]

\* lines 161-190: the loop over the cells, visited in the given order; the
\* first cell whose kernel raises ends the loop
RECURSIVE Triplets(_, _, _, _)
Triplets(g, data, order, acc) ==
  IF Len(order) = 0 THEN [kind |-> "ok", t |-> acc]
  ELSE Only({IF loc.kind # "ok" THEN loc
             ELSE Only({Only({Triplets(g, data, Tail(order), next) :
                          next \in {[I |-> acc.I \o t.I, J |-> acc.J \o t.J,
                                     v |-> acc.v \o t.v]}}) :
                     t \in {CellTriplets(NodesLoc(g, Head(order)), loc.A)}}) :
             loc \in {LocalMatrix(g, data, Head(order))}})

\* the entries of data at coordinate (r, c), in the order of data
TripletsAt(t, r, c) ==
  MaskSel(t.v, Array([k \in 1 .. Len(t.v) |-> t.I[k] = r /\ t.J[k] = c]))

IndexMax(a) == CHOOSE x \in {a[k] : k \in 1 .. Len(a)} : \A k \in 1 .. Len(a) : a[k] <= x

\* The mutant of CsrMatrix that keeps the last of several entries of one
\* coordinate instead of their sum.
CsrMatrixOverwrite(t) ==
  Array([r \in 1 .. (IndexMax(t.I) + 1) |-> Array([c \in 1 .. (IndexMax(t.J) + 1) |->
    LET s == TripletsAt(t, r - 1, c - 1)
    IN  IF Len(s) = 0 THEN RZero ELSE s[Len(s)]])])

\* line 193: sps.csr_matrix((dataIJ, (I, J))), read as a dense matrix: the
\* shape is the largest index plus one, entries of one coordinate are summed
CsrMatrix(t) ==
  Array([r \in 1 .. (IndexMax(t.I) + 1) |-> Array([c \in 1 .. (IndexMax(t.J) + 1) |->
    RSumSeq(TripletsAt(t, r - 1, c - 1))])])

RECURSIVE RAmax(_)
RAmax(a) ==
  IF Len(a) = 1 THEN a[1]
  ELSE LET m == RAmax(Tail(a)) IN IF RLeq(m, a[1]) THEN a[1] ELSE m

\* sps.linalg.norm(M, np.inf): the largest absolute row sum
InfNorm(M) ==
  RAmax(Array([i \in 1 .. NRows(M) |->
          RSumSeq(Array([j \in 1 .. NCols(M) |-> RAbs(M[i][j])]))]))

\* The mutant of BcNorm that ignores bc_weight.
BcNormAlwaysOne(M, bc_weight) == RInt(1)

\* line 195
BcNorm(M, bc_weight) == IF bc_weight THEN InfNorm(M) ELSE RInt(1)

\* np.any(bc.is_dir)
AnyDir(bc) == \E k \in 1 .. Len(bc.is_dir) : bc.is_dir[k]

\* np.where(is_dir)[0] indexes an array of n entries beyond its end
OutOfRange(bc, n) == \E k \in 1 .. Len(bc.is_dir) : bc.is_dir[k] /\ k > n

\* bc.is_dir[i - 1] of a row or entry i
Flagged(bc, i) == i <= Len(bc.is_dir) /\ bc.is_dir[i]

\* lines 198-201: M[is_dir, :] *= 0 and M[is_dir, is_dir] = norm
ApplyDirichlet(M, bc, norm) ==
  IF bc # Missing /\ AnyDir(bc)
  THEN IF OutOfRange(bc, NRows(M)) THEN [ok |-> FALSE, err |-> "IndexError"]
       ELSE [ok |-> TRUE,
             m |-> Array([i \in 1 .. NRows(M) |->
                     IF Flagged(bc, i)
                     THEN Array([j \in 1 .. NCols(M) |-> IF i = j THEN norm ELSE RZero])
                     ELSE M[i]])]
  ELSE [ok |-> TRUE, m |-> M]

\* PrimalVEM.ndof, lines 62-63
Ndof(g) == g.num_nodes

\* PrimalVEM.matrix(g, data, bc_weight), the cells visited in the given
\* order (np.arange(g.num_cells) in the source)
MatrixInOrder(g, data, bc_weight, order) ==
  IF g.dim = 0
  THEN [kind |-> "ok", M |-> ZeroMat(Ndof(g), Ndof(g)), norm |-> RInt(1)]
  ELSE Only({IF t.kind # "ok" THEN t
             ELSE Only({Only({Only({IF ~dir.ok THEN RaisedAt(dir.err, "matrix", <<>>)
                                    ELSE [kind |-> "ok", M |-> dir.m, norm |-> norm] :
                                dir \in {ApplyDirichlet(M, data.bc, norm)}}) :
                          norm \in {BcNorm(M, bc_weight)}}) :
                     M \in {CsrMatrix(t.t)}}) :
             t \in {Triplets(g, data, order, [I |-> <<>>, J |-> <<>>, v |-> <<>>])}})

\* lines 93-205
Matrix(g, data, bc_weight) ==
  MatrixInOrder(g, data, bc_weight, Array([c \in 1 .. g.num_cells |-> c - 1]))

\* line 233: not bool(bc is None) != bool(bc_val is None); "not" binds
\* weaker than "!="
BcPresenceOk(bc, bc_val) == ~((bc = Missing) # (bc_val = Missing))

\* lines 209-243
Rhs(g, data, bc_weight) ==
  IF g.dim = 0 THEN [kind |-> "ok", rhs |-> RVec(data.f)]
  ELSE IF ~BcPresenceOk(data.bc, data.bc_val)
  THEN RaisedAt("AssertionError", "rhs", <<>>)
  ELSE IF data.bc = Missing \/ ~AnyDir(data.bc)
  THEN [kind |-> "ok", rhs |-> Array([i \in 1 .. Ndof(g) |-> RZero])]
  ELSE IF OutOfRange(data.bc, Min2(Ndof(g), Len(data.bc_val.val)))
  THEN RaisedAt("IndexError", "rhs", <<>>)
  ELSE [kind |-> "ok",
        rhs |-> Array([i \in 1 .. Ndof(g) |->
                  IF Flagged(data.bc, i) THEN RMul(bc_weight, RInt(data.bc_val.val[i]))
                  ELSE RZero])]

\* lines 88-89
MatrixRhs(g, data) ==
  Only({IF m.kind # "ok" THEN m
        ELSE Only({IF r.kind # "ok" THEN r
                   ELSE [kind |-> "ok", M |-> m.M, rhs |-> r.rhs] :
               r \in {Rhs(g, data, m.norm)}}) :
        m \in {Matrix(g, data, TRUE)}})

(***************************************************************************)
(* Arguments of the calls of PrimalVEM: a point, chains of intervals and   *)
(* a rectangle cut into two triangles.                                     *)
(***************************************************************************)
\* the 0-dimensional grid: one node, one cell
PointGrid ==
  [dim |-> 0, num_nodes |-> 1, num_cells |-> 1, num_faces |-> 0,
   cell_faces |-> {}, face_nodes |-> {}, cell_nodes |-> {<<0, 0, 1>>},
   cell_volumes |-> <<RInt(1)>>, cell_diameters |-> <<RInt(1)>>,
   c_centers |-> <<>>, f_normals |-> <<>>, node_coords |-> <<>>]

\* the coordinate of node i of the chain of intervals of lengths hs
RECURSIVE ChainX(_, _)
ChainX(hs, i) == IF i = 0 THEN 0 ELSE ChainX(hs, i - 1) + hs[i]

\* n intervals of lengths hs; face i is node i, with normal +1; cell c has
\* the faces c and c + 1 with the signs sgs[c]; vol is the cell volumes
ChainGrid(n, hs, sgs, vol) ==
  [dim |-> 1, num_nodes |-> n + 1, num_cells |-> n, num_faces |-> n + 1,
   cell_faces |-> {<<c, c, sgs[c + 1][1]>> : c \in Range0(n)}
                    \cup {<<c + 1, c, sgs[c + 1][2]>> : c \in Range0(n)},
   face_nodes |-> {<<i, i, 1>> : i \in Range0(n + 1)},
   cell_nodes |-> {<<c, c, 1>> : c \in Range0(n)}
                    \cup {<<c + 1, c, 1>> : c \in Range0(n)},
   cell_volumes |-> RVec(vol),
   cell_diameters |-> RVec(hs),
   c_centers |-> <<Array([c \in 1 .. n |-> Rat(2 * ChainX(hs, c - 1) + hs[c], 2)])>>,
   f_normals |-> <<Array([i \in 1 .. (n + 1) |-> RInt(1)])>>,
   node_coords |-> <<Array([i \in 1 .. (n + 1) |-> RInt(ChainX(hs, i - 1))])>>]

\* the rectangle [0, w] x [0, h] cut along the diagonal from node 0 to node
\* 2: cells (0, 1, 2) and (0, 2, 3), faces (0,1), (1,2), (0,2), (2,3), (0,3)
\* with the normal of face (a, b) the edge b - a turned clockwise; w + h
\* stands for the diameter of a cell
TwoTriangleGrid(w, h) ==
  [dim |-> 2, num_nodes |-> 4, num_cells |-> 2, num_faces |-> 5,
   cell_faces |-> {<<0, 0, 1>>, <<1, 0, 1>>, <<2, 0, -1>>,
                   <<2, 1, 1>>, <<3, 1, 1>>, <<4, 1, -1>>},
   face_nodes |-> {<<0, 0, 1>>, <<1, 0, 1>>, <<1, 1, 1>>, <<2, 1, 1>>,
                   <<0, 2, 1>>, <<2, 2, 1>>, <<2, 3, 1>>, <<3, 3, 1>>,
                   <<0, 4, 1>>, <<3, 4, 1>>},
   cell_nodes |-> {<<0, 0, 1>>, <<1, 0, 1>>, <<2, 0, 1>>,
                   <<0, 1, 1>>, <<2, 1, 1>>, <<3, 1, 1>>},
   cell_volumes |-> <<Rat(w * h, 2), Rat(w * h, 2)>>,
   cell_diameters |-> <<RInt(w + h), RInt(w + h)>>,
   c_centers |-> <<<<Rat(2 * w, 3), Rat(w, 3)>>, <<Rat(h, 3), Rat(2 * h, 3)>>>>,
   f_normals |-> RMat(<<<<0, h, h, 0, h>>, <<0 - w, 0, 0 - w, w, 0>>>>),
   node_coords |-> RMat(<<<<0, w, w, 0>>, <<0, 0, h, h>>>>)]

\* the boundary value given on a Dirichlet face
BcValue == 2

\* boundary conditions on n faces: d[i] = 0 for a face that is not
\* Dirichlet, else the boundary value of the face
BcOf(n, d) == [is_dir |-> Array([i \in 1 .. n |-> d[i] # 0])]

\* the pairs (bc, bc_val) of a call on a grid of n faces: both given, one
\* of them missing, or none
BcPairs(n) ==
  {<<BcOf(n, d), [val |-> d]>> : d \in [1 .. n -> {0, BcValue}]}
    \cup {<<BcOf(n, d), Missing>> : d \in [1 .. n -> {0, BcValue}]}
    \cup {<<Missing, [val |-> Zeros(n)]>>, <<Missing, Missing>>}

\* the pairs tried on a grid with a malformed cell
BcPairsFew(n) ==
  {<<BcOf(n, Array([i \in 1 .. n |-> BcValue])),
     [val |-> Array([i \in 1 .. n |-> BcValue])]>>,
   <<Missing, Missing>>}

VemData(n, bcp, f) ==
  [k |-> Array([c \in 1 .. n |-> 1]), a |-> Array([c \in 1 .. n |-> 1]),
   bc |-> bcp[1], bc_val |-> bcp[2], f |-> f]

\* the signs of the two faces of an interval: outward, or both +1
Orientations == {<<-1, 1>>, <<1, 1>>}

WellOriented(n, sgs) == \A c \in 1 .. n : sgs[c] = <<-1, 1>>

InitVem ==
  /\ pc = "ready"
  /\ out = None
  /\ \/ \E f \in {0, 3}, bcp \in BcPairs(0) :
          inp = [g |-> PointGrid, data |-> VemData(1, bcp, <<f>>)]
     \/ \E n \in 1 .. MaxCells :
          \E hs \in [1 .. n -> Sides], bcp \in BcPairs(n + 1) :
            inp = [g |-> ChainGrid(n, hs, Array([c \in 1 .. n |-> <<-1, 1>>]), hs),
                   data |-> VemData(n, bcp, Zeros(n))]
     \/ \E n \in 1 .. MaxCells :
          \E hs \in [1 .. n -> Sides], sgs \in [1 .. n -> Orientations],
             z \in 0 .. n, bcp \in BcPairsFew(n + 1) :
            /\ WellOriented(n, sgs) # (z = 0)
            /\ inp = [g |-> ChainGrid(n, hs, sgs,
                              Array([c \in 1 .. n |-> IF c = z THEN 0 ELSE hs[c]])),
                      data |-> VemData(n, bcp, Zeros(n))]
     \/ \E w \in Sides, h \in Sides, bcp \in BcPairs(5) :
          inp = [g |-> TwoTriangleGrid(w, h),
                 data |-> VemData(2, bcp, Zeros(2))]

\* a call of PrimalVEM.matrix_rhs
CallMatrixRhs ==
  /\ pc = "ready"
  /\ pc' = "PrimalVEM.matrix_rhs"
  /\ out' = MatrixRhs(inp.g, inp.data)
  /\ UNCHANGED inp

\* a call of PrimalVEM.matrix without boundary-condition weighting
CallMatrix ==
  /\ pc = "ready"
  /\ pc' = "PrimalVEM.matrix"
  /\ out' = Only({IF m.kind = "ok" THEN [kind |-> "ok", M |-> m.M] ELSE m :
                     m \in {Matrix(inp.g, inp.data, FALSE)}})
  /\ UNCHANGED inp

NextVem == CallMatrixRhs \/ CallMatrix

SpecVem == InitVem /\ [][NextVem]_vars

(***************************************************************************)
(* Two calls that differ in the permeability only: stiffH1 on one cell     *)
(* with two values of K, and matrix on one grid with two parameter bundles *)
(* that differ in the permeability k or the aperture a.  The first bundle  *)
(* of a pair has k = a = 1 in every cell, the second is any other one.     *)
(***************************************************************************)
\* the arguments of stiffH1 with permeability K
StiffArgs(K) ==
  UNION {{IntervalCell(w, sg, vol, diam, K) :
            sg \in [1 .. 2 -> Signs], vol \in {0, w}}
         \cup {RectangleCell(w, h, sg, vol, diam, K) :
                 sg \in [1 .. 4 -> Signs], vol \in {0, w * h}}
         \cup {TriangleCell(w, h, sg, vol, diam, K) :
                 sg \in [1 .. 3 -> Signs], vol \in {0, w * h}} :
         w \in Sides, h \in Sides, diam \in Sides}

\* the same arguments with another permeability
WithK(x, K) == [x EXCEPT !.K = K]

\* the grids of the pairs of calls of matrix: chains of equal intervals and
\* the rectangle of two triangles
PairGrids ==
  {ChainGrid(n, Array([c \in 1 .. n |-> w]), Array([c \in 1 .. n |-> <<-1, 1>>]),
             Array([c \in 1 .. n |-> w])) : n \in 1 .. MaxCells, w \in Sides}
    \cup {TwoTriangleGrid(w, h) : w \in Sides, h \in Sides}

\* the same bundle with another permeability and aperture
WithKA(data, k, a) == [data EXCEPT !.k = k, !.a = a]

InitPair ==
  /\ pc = "ready"
  /\ out = None
  /\ \/ \E K1 \in Perms, K2 \in Perms, x \in StiffArgs(1) :
          /\ K1 # K2
          /\ inp = [first |-> WithK(x, K1), second |-> WithK(x, K2)]
     \/ \E g \in PairGrids :
          \E bcp \in BcPairsFew(g.num_faces),
             k \in [1 .. g.num_cells -> Perms], a \in [1 .. g.num_cells -> Perms] :
            /\ <<k, a>> # <<VemData(g.num_cells, bcp, <<>>).k, VemData(g.num_cells, bcp, <<>>).a>>
            /\ inp = [g |-> g,
                      first |-> VemData(g.num_cells, bcp, Zeros(g.num_cells)),
                      second |-> WithKA(VemData(g.num_cells, bcp, Zeros(g.num_cells)), k, a)]

\* two calls of PrimalVEM.stiffH1
CallStiffH1Twice ==
  /\ pc = "ready"
  /\ "K" \in DOMAIN inp.first
  /\ pc' = "PrimalVEM.stiffH1 twice"
  /\ out' = [first |-> StiffH1(inp.first.K, inp.first.c_center, inp.first.c_volume,
                               inp.first.normals, inp.first.diam, inp.first.coord,
                               inp.first.node_faces),
             second |-> StiffH1(inp.second.K, inp.second.c_center, inp.second.c_volume,
                                inp.second.normals, inp.second.diam, inp.second.coord,
                                inp.second.node_faces)]
  /\ UNCHANGED inp

\* two calls of PrimalVEM.matrix, with or without weighting
CallMatrixTwice ==
  /\ pc = "ready"
  /\ "k" \in DOMAIN inp.first
  /\ pc' = "PrimalVEM.matrix twice"
  /\ \E bc_weight \in BOOLEAN :
       out' = [first |-> Matrix(inp.g, inp.first, bc_weight),
               second |-> Matrix(inp.g, inp.second, bc_weight)]
  /\ UNCHANGED inp

NextPair == CallStiffH1Twice \/ CallMatrixTwice

SpecPair == InitPair /\ [][NextPair]_vars

(***************************************************************************)
(* Properties of the coupling.  The expected values are written over the   *)
(* set of matched pairs, from the incidence entries themselves.            *)
(***************************************************************************)
\* the sum of the values f[x] of a function f over the set S
RECURSIVE SumOn(_, _)
SumOn(f, S) ==
  IF S = {} THEN 0
  ELSE LET x == CHOOSE y \in S : TRUE IN f[x] + SumOn(f, S \ {x})

SumFn(f) == SumOn(f, DOMAIN f)

\* the cell and the sign of face f in grid g
CellOfFace(g, f) == (CHOOSE e \in g.cell_faces : e[1] = f)[2]

SignOfFace(g, f) == (CHOOSE e \in g.cell_faces : e[1] = f)[3]

Cells(g) == Range0(g.num_cells)

Pairs == inp.data_edge.face_cells

Beta(f) == At(inp.data_edge.beta_n, f)

\* equal dimension: a pair is <<face_h, face_l, 1>>
FluxH(e) == SignOfFace(inp.g_h, e[1]) * Beta(e[1])

FluxL(e) == SignOfFace(inp.g_l, e[2]) * Beta(e[1])

\* C1: in the equal-dimension case every diagonal entry of cc[0,0] is the
\* sum of max(beta_n_h, 0) over the matched pairs whose g_h face lies in
\* that cell, and every diagonal entry of cc[1,1] is the sum of
\* max(beta_n_l, 0) over the matched pairs whose g_l face lies in that cell,
\* for any numbers of cells of the two grids.
C1_EqualDimIndependentDiagonals ==
  (pc = "UpwindCoupling.matrix_rhs" /\ inp.g_h.dim = inp.g_l.dim) =>
    /\ out.kind = "cc"
    /\ \A c \in Cells(inp.g_h) :
         out.cc00[<<c, c>>] =
           SumFn([e \in {x \in Pairs : CellOfFace(inp.g_h, x[1]) = c} |->
                    Max2(FluxH(e), 0)])
    /\ \A d \in Cells(inp.g_l) :
         out.cc11[<<d, d>>] =
           SumFn([e \in {x \in Pairs : CellOfFace(inp.g_l, x[2]) = d} |->
                    Max2(FluxL(e), 0)])

\* two one-cell grids joined by one matched face pair, the flux leaving the
\* cell of the first grid (sgn_h = 1) and entering that of the second
\* (sgn_l = -1)
OneFluxLeftToRight(q) ==
  /\ inp.g_h.dim = inp.g_l.dim
  /\ inp.g_h.num_cells = 1
  /\ inp.g_l.num_cells = 1
  /\ \E e \in Pairs :
       /\ Pairs = {e}
       /\ SignOfFace(inp.g_h, e[1]) = 1
       /\ SignOfFace(inp.g_l, e[2]) = -1
       /\ Beta(e[1]) = q

\* C2: for one flux q > 0 from the cell of the first grid to the cell of
\* the second, cc[0,0] = q (the donor), cc[1,1] = 0, cc[1,0] = -q and
\* cc[0,1] = 0.
C2_DonorReceiverScenario ==
  \A q \in {x \in Fluxes : x > 0} :
    (pc = "UpwindCoupling.matrix_rhs" /\ OneFluxLeftToRight(q)) =>
      /\ out.kind = "cc"
      /\ out.cc00[<<0, 0>>] = q
      /\ out.cc11[<<0, 0>>] = 0
      /\ out.cc10[<<0, 0>>] = 0 - q
      /\ out.cc01[<<0, 0>>] = 0

\* dimension-adjacent: a pair is <<cell_l, face_h, 1>>
FluxQ(e) == SignOfFace(inp.g_h, e[2]) * Beta(e[2])

AdjacentDone == pc = "UpwindCoupling.matrix_rhs" /\ inp.g_h.dim # inp.g_l.dim

\* the sum of column c of a dense matrix with nr rows
ColSum(m, nr, c) == SumFn([r \in Range0(nr) |-> m[<<r, c>>]])

\* C3: in the dimension-adjacent case every column of the assembled 2x2
\* block matrix sums to zero, and for a single matched pair the diagonal
\* entry of each side and the off-diagonal entry below or above it cancel.
C3_AdjacentMassBalance ==
  AdjacentDone =>
    /\ out.kind = "cc"
    /\ \A c \in Cells(inp.g_h) :
         ColSum(out.cc00, inp.g_h.num_cells, c)
           + ColSum(out.cc10, inp.g_l.num_cells, c) = 0
    /\ \A d \in Cells(inp.g_l) :
         ColSum(out.cc01, inp.g_h.num_cells, d)
           + ColSum(out.cc11, inp.g_l.num_cells, d) = 0
    /\ \A e \in Pairs :
         Pairs = {e} =>
           LET ch == CellOfFace(inp.g_h, e[2])
               cl == e[1]
           IN  /\ out.cc00[<<ch, ch>>] + out.cc10[<<cl, ch>>] = 0
               /\ out.cc11[<<cl, cl>>] + out.cc01[<<ch, cl>>] = 0
               /\ Abs(out.cc00[<<ch, ch>>]) = Abs(out.cc10[<<cl, ch>>])
               /\ Abs(out.cc11[<<cl, cl>>]) = Abs(out.cc01[<<ch, cl>>])

\* a call of the adjacent case with flux crossing the interface both ways
C3_Witness ==
  /\ AdjacentDone
  /\ out.kind = "cc"
  /\ \E e1 \in Pairs, e2 \in Pairs : FluxQ(e1) > 0 /\ FluxQ(e2) < 0
  /\ \E rc \in DOMAIN out.cc10 : out.cc10[rc] < 0
  /\ \E rc \in DOMAIN out.cc01 : out.cc01[rc] < 0
  /\ \E rc \in DOMAIN out.cc11 : out.cc11[rc] > 0

PairsOf(cl, ch) == {e \in Pairs : e[1] = cl /\ CellOfFace(inp.g_h, e[2]) = ch}

\* C4: in the dimension-adjacent case cc[0,0][c_h,c_h] is the sum of
\* max(q, 0) over the matched pairs whose face lies in c_h, cc[1,0][c_l,c_h]
\* the sum of -max(q, 0) and cc[0,1][c_h,c_l] the sum of min(q, 0) over the
\* pairs of the cell pair (c_l, c_h): contributions to one coordinate are
\* summed.
C4_AdjacentBlockValues ==
  AdjacentDone =>
    /\ out.kind = "cc"
    /\ \A c \in Cells(inp.g_h), c2 \in Cells(inp.g_h) :
         out.cc00[<<c, c2>>] =
           IF c = c2
           THEN SumFn([e \in {x \in Pairs : CellOfFace(inp.g_h, x[2]) = c} |->
                         Max2(FluxQ(e), 0)])
           ELSE 0
    /\ \A cl \in Cells(inp.g_l), ch \in Cells(inp.g_h) :
         /\ out.cc10[<<cl, ch>>] =
              SumFn([e \in PairsOf(cl, ch) |-> 0 - Max2(FluxQ(e), 0)])
         /\ out.cc01[<<ch, cl>>] =
              SumFn([e \in PairsOf(cl, ch) |-> Min2(FluxQ(e), 0)])

\* two interface faces of one cell pair, both with outflow
C4_Witness ==
  /\ AdjacentDone
  /\ out.kind = "cc"
  /\ \E e1 \in Pairs, e2 \in Pairs :
       /\ e1 # e2
       /\ e1[1] = e2[1]
       /\ CellOfFace(inp.g_h, e1[2]) = CellOfFace(inp.g_h, e2[2])
       /\ FluxQ(e1) > 0
       /\ FluxQ(e2) > 0
       /\ out.cc10[<<e1[1], CellOfFace(inp.g_h, e1[2])>>]
            = 0 - (FluxQ(e1) + FluxQ(e2))

\* the g_h cell of a matched face, the apertures and phi of the call
ParamAt(d, key, c) == IF d[key] = Absent THEN 1 ELSE At(d[key], c)

CflPairTerm(e) ==
  LET ch == CellOfFace(inp.g_h, e[2])
      a_h == ParamAt(inp.data_h, "a", ch)
      a_l == ParamAt(inp.data_l, "a", e[1])
      phi == ParamAt(inp.data_l, "phi", e[1])
      area == At(inp.g_h.face_areas, e[2])
  IN  \* 0.5 * (a_l / a_h) / |beta / (area * a_h)| * phi
      Rat(a_l * area * a_h * phi, 2 * a_h * Abs(Beta(e[2])))

NonZeroPairs == {e \in Pairs : Beta(e[2]) # 0}

\* C5: cfl returns infinity when beta_n is zero on every matched face and
\* otherwise the minimum of the terms of the matched pairs of non-zero
\* flux, also when some matched faces have zero flux and others do not.
C5_CflMinimumOverNonZero ==
  pc = "UpwindCoupling.cfl" =>
    /\ out.kind = "value"
    /\ IF NonZeroPairs = {}
       THEN out.deltaT = Inf
       ELSE /\ out.deltaT # Inf
            /\ \E e \in NonZeroPairs : out.deltaT = CflPairTerm(e)
            /\ \A e \in NonZeroPairs : RLeq(out.deltaT, CflPairTerm(e))

(***************************************************************************)
(* Properties of the local stiffness matrix.                               *)
(***************************************************************************)
\* the principal submatrix of A on the index set S
Principal(A, S) ==
  LET idx == SortInts(S)
  IN  Array([i \in 1 .. Len(idx) |-> Array([j \in 1 .. Len(idx) |-> A[idx[i]][idx[j]]])])

Symmetric(A) == \A i \in 1 .. NRows(A), j \in 1 .. NRows(A) : A[i][j] = A[j][i]

RowsSumToZero(A) == \A i \in 1 .. NRows(A) : RSumSeq(A[i]) = RZero

\* a symmetric matrix is positive semidefinite iff no principal minor is
\* negative
PositiveSemidefinite(A) ==
  \A S \in SUBSET (1 .. NRows(A)) : RLeq(RZero, Det(Principal(A, S)))

\* a symmetric n x n matrix has rank n - 1 at least iff some principal
\* minor of order n - 1 is not zero: together with A.1 = 0 the null space
\* is the constants
NullSpaceIsConstants(A) ==
  /\ RowsSumToZero(A)
  /\ \E k \in 1 .. NRows(A) : Det(Principal(A, (1 .. NRows(A)) \ {k})) # RZero

\* C10: a local matrix returned by stiffH1 is symmetric and positive
\* semidefinite and its null space is exactly the constant nodal vectors;
\* in particular for the square cell of 4 nodes, unit diameter and unit
\* volume.
C10_LocalMatrixSymmetricPsd ==
  (pc = "PrimalVEM.stiffH1" /\ out.kind = "ok") =>
    /\ Symmetric(out.A)
    /\ PositiveSemidefinite(out.A)
    /\ NullSpaceIsConstants(out.A)

\* the unit square with unit diameter and unit volume, accepted
C10_Witness ==
  /\ pc = "PrimalVEM.stiffH1"
  /\ out.kind = "ok"
  /\ NCols(inp.coord) = 4
  /\ inp.coord = RMat(<<<<0, 1, 1, 0>>, <<0, 0, 1, 1>>>>)
  /\ inp.diam = RInt(1)
  /\ inp.c_volume = RInt(1)
  /\ Symmetric(out.A)
  /\ RowsSumToZero(out.A)

(***************************************************************************)
(* Properties of PrimalVEM.matrix and PrimalVEM.matrix_rhs.                *)
(***************************************************************************)
VemCall == pc \in {"PrimalVEM.matrix_rhs", "PrimalVEM.matrix"}

VemCells == Range0(inp.g.num_cells)

\* the nodes of cell c, read off the incidence matrix
NodesOfCell(c) == {e[1] : e \in {x \in inp.g.cell_nodes : x[2] = c}}

\* the position of node i in the node list of cell c, counted from 1
LocOf(c, i) == Cardinality({n \in NodesOfCell(c) : n < i}) + 1

RECURSIVE RSumFn(_)
RSumFn(f) ==
  IF DOMAIN f = {} THEN RZero
  ELSE LET e == CHOOSE x \in DOMAIN f : TRUE
       IN  RAdd(f[e], RSumFn([x \in DOMAIN f \ {e} |-> f[x]]))

\* the local matrices of the cells, cell c at index c + 1
LocalMatrices == Array([c \in 1 .. inp.g.num_cells |-> LocalMatrix(inp.g, inp.data, c - 1)])

\* the sum over the cells containing nodes i and j of the local entries
SumOfLocal(As, i, j) ==
  RSumFn([c \in {x \in VemCells : i \in NodesOfCell(x) /\ j \in NodesOfCell(x)} |->
            As[c + 1].A[LocOf(c, i)][LocOf(c, j)]])

SumOfLocals(As) ==
  Array([i \in 1 .. inp.g.num_nodes |-> Array([j \in 1 .. inp.g.num_nodes |->
    SumOfLocal(As, i - 1, j - 1)])])

\* the largest absolute row sum of a matrix
LargestRowSum(M) ==
  LET sums == {RSumFn([j \in 1 .. Len(M[i]) |-> RAbs(M[i][j])]) : i \in 1 .. Len(M)}
  IN  CHOOSE r \in sums : \A q \in sums : RLeq(q, r)

IsDirichlet(i) == i <= Len(inp.data.bc.is_dir) /\ inp.data.bc.is_dir[i]

\* C6: after matrix_rhs on a grid of dimension >= 1 with boundary conditions
\* given, every row flagged Dirichlet is zero off the diagonal and w on it
\* and rhs is w * bc_val there, with w the infinity norm of the assembled
\* matrix before the Dirichlet rows were written; rows that are not flagged
\* keep their assembled value and have rhs 0; matrix called without
\* weighting uses w = 1.
C6_DirichletRows ==
  (VemCall /\ inp.g.dim >= 1 /\ inp.data.bc # Missing /\ out.kind = "ok") =>
    LET assembled == SumOfLocals(LocalMatrices)
        w == IF pc = "PrimalVEM.matrix" THEN RInt(1) ELSE LargestRowSum(assembled)
    IN  /\ Len(out.M) = inp.g.num_nodes
        /\ \A k \in 1 .. Len(inp.data.bc.is_dir) : IsDirichlet(k) => k <= Len(out.M)
        /\ \A i \in 1 .. Len(out.M) :
              IF IsDirichlet(i)
              THEN /\ \A j \in 1 .. Len(out.M[i]) :
                        out.M[i][j] = (IF i = j THEN w ELSE RZero)
                   /\ pc = "PrimalVEM.matrix_rhs" =>
                        out.rhs[i] = RMul(w, RInt(inp.data.bc_val.val[i]))
              ELSE /\ out.M[i] = assembled[i]
                   /\ pc = "PrimalVEM.matrix_rhs" => out.rhs[i] = RZero

C6_Witness ==
  /\ pc = "PrimalVEM.matrix_rhs"
  /\ inp.g.dim >= 1
  /\ inp.data.bc # Missing
  /\ out.kind = "ok"
  /\ \E i, j \in 1 .. inp.g.num_nodes :
        /\ IsDirichlet(i) /\ ~IsDirichlet(j)
        /\ out.M[i][i] # RInt(1) /\ out.M[i][i] # RZero
        /\ out.rhs[i] = RMul(out.M[i][i], RInt(BcValue))
        /\ out.rhs[j] = RZero /\ out.M[j][j] # RZero

\* the orders in which n cells can be visited
CellOrders(n) ==
  {p \in [1 .. n -> Range0(n)] : \A a, b \in 1 .. n : p[a] = p[b] => a = b}

\* C7: the assembly of matrix is additive: every entry (i, j) of a row that
\* no Dirichlet condition rewrote is the sum over the cells containing i and
\* j of the local entries at the positions of i and j, and visiting the
\* cells in any other order gives the same matrix.
C7_AdditiveAssembly ==
  (pc = "PrimalVEM.matrix" /\ inp.g.dim >= 1 /\ out.kind = "ok") =>
    /\ LET As == LocalMatrices
        IN  \A i, j \in 1 .. inp.g.num_nodes :
              (inp.data.bc = Missing \/ ~IsDirichlet(i)) =>
                 out.M[i][j] = SumOfLocal(As, i - 1, j - 1)
    /\ \A order \in CellOrders(inp.g.num_cells) :
          MatrixInOrder(inp.g, inp.data, FALSE, order).M = out.M

C7_Witness ==
  /\ pc = "PrimalVEM.matrix"
  /\ inp.g.dim = 1 /\ inp.g.num_cells = 2
  /\ inp.data.bc = Missing
  /\ out.kind = "ok"
  /\ LET a == LocalMatrix(inp.g, inp.data, 0).A[2][2]
          b == LocalMatrix(inp.g, inp.data, 1).A[1][1]
      IN  a # RZero /\ b # RZero /\ a # b /\ out.M[2][2] = RAdd(a, b)

\* C8: on a grid of any dimension, matrix_rhs with exactly one of the
\* boundary flags and the boundary values missing fails and returns no
\* pair; with both or none of them the call does not fail for that reason.
C8_BcPresenceChecked ==
  pc = "PrimalVEM.matrix_rhs" =>
    /\ ((inp.data.bc = Missing) # (inp.data.bc_val = Missing)) => out.kind = "raised"
    /\ ((inp.data.bc = Missing) = (inp.data.bc_val = Missing)) =>
          ~(out.kind = "raised" /\ out.at = "rhs" /\ out.err = "AssertionError")

\* G and F.D of cell c, as the kernel computes them
ConsistencyPair(c) ==
  LET x == KernelArgs(inp.g, inp.data, c)
      D == LocalD(x.c_center, x.diam, x.coord)
      G == LocalG(LocalGtilde(inp.g.dim, x.c_volume, x.diam), D)
  IN  [D |-> D, G |-> G,
       FD |-> Dot(LocalF(inp.g.dim, x.diam, x.normals, x.node_faces), D)]

Consistent(c) == AllClose(ConsistencyPair(c).G, ConsistencyPair(c).FD)

\* C9: row 0 of G is the column sums of D over the node count; a local
\* matrix is returned only when G equals F.D within tolerance; otherwise the
\* kernel and the enclosing matrix call fail, return no matrix, and the
\* failure detail identifies the index of the offending cell.
C9_ConsistencyFailureNamesCell ==
  (VemCall /\ inp.g.dim >= 1) =>
    /\ \A c \in VemCells :
          LET p == ConsistencyPair(c)
          IN  \A j \in 1 .. Len(p.G[1]) :
                p.G[1][j] = RDiv(RSumFn([i \in 1 .. Len(p.D) |-> p.D[i][j]]),
                                 RInt(Len(p.D)))
    /\ out.kind = "ok" => \A c \in VemCells : Consistent(c)
    /\ (\E c \in VemCells : ~Consistent(c)) => out.kind = "raised"
    /\ (out.kind = "raised" /\ out.at = "stiffH1") =>
          \E c \in VemCells :
            /\ ~Consistent(c)
            /\ \A d \in VemCells :
                  (out.detail = [G |-> ConsistencyPair(d).G, FD |-> ConsistencyPair(d).FD])
                     => d = c

====
